---- MODULE Spec2Model ----
(***************************************************************************)
(* Model of jet_automation.py: the journal-entry-testing procedures        *)
(* (A02, A03, B01..B09), the two schema validators and the main script     *)
(* that runs the selected procedures over the three uploaded tables.       *)
(*                                                                         *)
(* Amounts are integers counted in cents, so the 0.01 tolerance of the     *)
(* roll-forward filter is one cent.  Account codes are sequences of        *)
(* characters so that str.startswith is computed, not assumed.  A table    *)
(* (DataFrame) is a record: whether the file was loaded, its column names  *)
(* and its rows; the index of a row is its position in rows.               *)
(***************************************************************************)
EXTENDS Integers, Sequences, FiniteSets, TLC

VARIABLES prev_tb, journal_df, curr_tb, user_roles, selected, pc, ret, validated, injected

vars == <<prev_tb, journal_df, curr_tb, user_roles, selected, pc, ret, validated, injected>>

(***************************************************************************)
(* Bounds of the explored inputs.                                          *)
(***************************************************************************)
MaxA02Rows == 2
MaxA02Amt == 2
MaxBal == 2
MaxJAmt == 1
MaxJRows == 2
MaxCoerceBal == 2
MaxInjPrior == 1
MaxInjBal == 3
MaxSelected == 2
MaxB06Rows == 2
MaxB09Rows == 4
MaxB01Rows == 2
MaxB01Amt == 2

(***************************************************************************)
(* Values and tables.                                                      *)
(***************************************************************************)
None == "None"

TBColumns == {"account_code", "account_name", "debit_balance", "credit_balance"}

JournalColumns == {"posting_date", "voucher_id", "account_code", "account_name",
                   "debit_amount", "credit_amount"}

OptionalColumns == {"entry_date", "preparer", "approver"}

NoFile == [present |-> FALSE, columns |-> {}, rows |-> <<>>]

DataFrame(cols, rows) == [present |-> TRUE, columns |-> cols, rows |-> rows]

\* a balance cell of a trial balance: a number, or text that is not a number
Num(v) == [ok |-> TRUE, v |-> v]

BadCell == [ok |-> FALSE, v |-> 0]

Kim == <<"k", "i", "m">>

Lee == <<"l", "e", "e">>

TBRow(code, dr, cr) ==
    [account_code |-> code, account_name |-> "name", debit_balance |-> dr, credit_balance |-> cr]

JRow(voucher, code, dr, cr, who) ==
    [posting_date |-> 1, voucher_id |-> voucher, account_code |-> code, account_name |-> "name",
     debit_amount |-> dr, credit_amount |-> cr, entry_date |-> 1, preparer |-> who,
     approver |-> Lee]

Abs(x) == IF x < 0 THEN -x ELSE x

SeqsFromTo(S, m, n) == UNION {[1..k -> S] : k \in m..n}

Range(s) == {s[i] : i \in DOMAIN s}

startswith(code, prefix) ==
    /\ Len(prefix) <= Len(code)
    /\ SubSeq(code, 1, Len(prefix)) = prefix

\* what a call hands back.  kind tells the shape: "list" (A02's list, msg
\* its only item or None), "DataFrame" (A02's table), "tuple" (a data frame
\* and a message or None), "tuple_none" (None and a message), "raise" (an
\* exception left the function)
Ret(kind, df, msg) == [kind |-> kind, df |-> df, msg |-> msg]

Raised == Ret("raise", {}, "KeyError")

NotCalled == Ret("not_called", {}, None)

Procedures == {"A01", "A02", "A03", "B01", "B02", "B03", "B04", "B05", "B06",
               "B07", "B08", "B09"}

(***************************************************************************)
(* Aggregation helpers: df.groupby(key).agg({col: 'sum'}).                 *)
(***************************************************************************)
RECURSIVE SumWhere(_, _, _, _, _)
SumWhere(rows, n, keycol, key, col) ==
    IF n = 0 THEN 0
    ELSE SumWhere(rows, n - 1, keycol, key, col)
         + (IF rows[n][keycol] = key THEN rows[n][col] ELSE 0)

groupby_sum(rows, keycol, key, col) == SumWhere(rows, Len(rows), keycol, key, col)

RECURSIVE SumIdx(_, _, _)
SumIdx(rows, idxs, col) ==
    IF idxs = {} THEN 0
    ELSE LET i == CHOOSE x \in idxs : TRUE
         IN rows[i][col] + SumIdx(rows, idxs \ {i}, col)

Keys(rows, keycol) == {rows[i][keycol] : i \in DOMAIN rows}

(***************************************************************************)
(* A02: debits against credits per voucher.                                *)
(***************************************************************************)
voucher_summary(journal) ==
    {[voucher_id |-> v,
      debit_amount |-> groupby_sum(journal.rows, "voucher_id", v, "debit_amount"),
      credit_amount |-> groupby_sum(journal.rows, "voucher_id", v, "credit_amount")]
       : v \in Keys(journal.rows, "voucher_id")}

a02_unbalanced_debit_heavy(journal) ==
    {s \in voucher_summary(journal) : s.debit_amount > s.credit_amount}

a02_unbalanced(journal) ==
    {s \in voucher_summary(journal) : s.debit_amount # s.credit_amount}

scenario_a02_dr_cr_test(journal) ==
    IF "voucher_id" \notin journal.columns
    THEN Ret("list", {}, "no voucher_id column")
    ELSE IF ~({"debit_amount", "credit_amount"} \subseteq journal.columns) THEN Raised
    ELSE LET unbalanced == a02_unbalanced(journal)
         IN IF Cardinality(unbalanced) = 0 THEN Ret("list", {}, None)
            ELSE Ret("DataFrame",
                     {[voucher_id |-> s.voucher_id,
                       debit_amount |-> s.debit_amount,
                       credit_amount |-> s.credit_amount,
                       difference |-> s.debit_amount - s.credit_amount]
                        : s \in unbalanced},
                     None)

(***************************************************************************)
(* A03: roll-forward of the prior trial balance through the journal.       *)
(***************************************************************************)
Tolerance == 1

\* pd.to_numeric(cell, errors='coerce') followed by fillna(0)
to_numeric_bad_is_one(cell) == IF cell.ok THEN cell.v ELSE 1

to_numeric_fillna0(cell) == IF cell.ok THEN cell.v ELSE 0

journal_summary(journal) ==
    {[account_code |-> a,
      debit_amount |-> groupby_sum(journal.rows, "account_code", a, "debit_amount"),
      credit_amount |-> groupby_sum(journal.rows, "account_code", a, "credit_amount")]
       : a \in Keys(journal.rows, "account_code")}

\* prev_tb_clean.merge(journal_summary, on=account_code, how='outer'), the
\* cells a side lacks filled with 0
merged_rows(prev, journal) ==
    LET js == journal_summary(journal)
        jcodes == {j.account_code : j \in js}
        pcodes == Keys(prev.rows, "account_code")
        jd(a) == IF a \in jcodes
                 THEN (CHOOSE j \in js : j.account_code = a).debit_amount ELSE 0
        jc(a) == IF a \in jcodes
                 THEN (CHOOSE j \in js : j.account_code = a).credit_amount ELSE 0
    IN {[account_code |-> prev.rows[i].account_code,
         debit_balance |-> to_numeric_fillna0(prev.rows[i].debit_balance),
         credit_balance |-> to_numeric_fillna0(prev.rows[i].credit_balance),
         debit_amount |-> jd(prev.rows[i].account_code),
         credit_amount |-> jc(prev.rows[i].account_code)] : i \in DOMAIN prev.rows}
       \cup
       {[account_code |-> j.account_code, debit_balance |-> 0, credit_balance |-> 0,
         debit_amount |-> j.debit_amount, credit_amount |-> j.credit_amount]
           : j \in {x \in js : x.account_code \notin pcodes}}

\* the two expected-balance formulas
calc_debit(m) == m.debit_balance + m.debit_amount - m.credit_amount

calc_credit(m) == m.credit_balance + m.credit_amount - m.debit_amount

\* the adjustment with both masks and both magnitudes read from the two
\* calculated values, neither from a column the other adjustment has written
netting_non_iterative(ed, ec) ==
    [expected_debit |-> (IF ed < 0 THEN 0 ELSE ed) + (IF ec < 0 THEN Abs(ec) ELSE 0),
     expected_credit |-> (IF ec < 0 THEN 0 ELSE ec) + (IF ed < 0 THEN Abs(ed) ELSE 0)]

\* a variant that clears a negative side without moving it across
netting_clear_negative(ed, ec) ==
    [expected_debit |-> IF ed < 0 THEN 0 ELSE ed,
     expected_credit |-> IF ec < 0 THEN 0 ELSE ec]

\* the adjustment of negative sides: first the debit mask, then the credit
\* mask, which reads the credit column the first adjustment has written
netting_debit_only(ed, ec) ==
    [expected_debit |-> IF ed < 0 THEN 0 ELSE ed,
     expected_credit |-> IF ed < 0 THEN ec + Abs(ed) ELSE ec]

netting(ed, ec) ==
    LET ec1 == IF ed < 0 THEN ec + Abs(ed) ELSE ec
        ed1 == IF ed < 0 THEN 0 ELSE ed
        ed2 == IF ec1 < 0 THEN ed1 + Abs(ec1) ELSE ed1
        ec2 == IF ec1 < 0 THEN 0 ELSE ec1
    IN [expected_debit |-> ed2, expected_credit |-> ec2]

\* the intermediate result: merged with its two calculated columns adjusted
expected_rows(prev, journal) ==
    {[account_code |-> m.account_code,
      calc_debit |-> calc_debit(m),
      calc_credit |-> calc_credit(m),
      expected_debit |-> netting(calc_debit(m), calc_credit(m)).expected_debit,
      expected_credit |-> netting(calc_debit(m), calc_credit(m)).expected_credit]
        : m \in merged_rows(prev, journal)}

CompRow(code, ed, ec, ad, ac) ==
    [account_code |-> code, expected_debit |-> ed, expected_credit |-> ec,
     actual_debit |-> ad, actual_credit |-> ac,
     debit_difference |-> ed - ad, credit_difference |-> ec - ac]

\* merged.merge(curr_tb_clean, on=account_code, how='outer'), missing cells 0,
\* and the two difference columns
comparison_rows(prev, journal, curr) ==
    LET ex == expected_rows(prev, journal)
        ecodes == {e.account_code : e \in ex}
        ccodes == Keys(curr.rows, "account_code")
        ad(i) == to_numeric_fillna0(curr.rows[i].debit_balance)
        ac(i) == to_numeric_fillna0(curr.rows[i].credit_balance)
        both == {p \in ex \X DOMAIN curr.rows :
                    p[1].account_code = curr.rows[p[2]].account_code}
    IN {CompRow(p[1].account_code, p[1].expected_debit, p[1].expected_credit,
                ad(p[2]), ac(p[2])) : p \in both}
       \cup
       {CompRow(e.account_code, e.expected_debit, e.expected_credit, 0, 0)
           : e \in {x \in ex : x.account_code \notin ccodes}}
       \cup
       {CompRow(curr.rows[i].account_code, 0, 0, ad(i), ac(i))
           : i \in {k \in DOMAIN curr.rows : curr.rows[k].account_code \notin ecodes}}

material_debit_only(c) == Abs(c.debit_difference) > Tolerance

material(c) ==
    Abs(c.debit_difference) > Tolerance \/ Abs(c.credit_difference) > Tolerance

a03_columns_present(prev, journal, curr) ==
    /\ {"account_code", "debit_amount", "credit_amount"} \subseteq journal.columns
    /\ {"account_code", "debit_balance", "credit_balance"} \subseteq prev.columns
    /\ {"account_code", "debit_balance", "credit_balance"} \subseteq curr.columns

scenario_a03_rollforward_test(prev, journal, curr) ==
    IF ~(prev.present /\ journal.present /\ curr.present)
    THEN Ret("tuple_none", {}, "missing upload")
    ELSE IF ~a03_columns_present(prev, journal, curr)
    THEN Ret("tuple_none", {}, "error during roll-forward")
    ELSE Ret("tuple", {c \in comparison_rows(prev, journal, curr) : material(c)}, None)

(***************************************************************************)
(* The schema validators.                                                  *)
(***************************************************************************)
validate_trial_balance(df) == TBColumns \subseteq df.columns

validate_journal_entries(df) == JournalColumns \subseteq df.columns

(***************************************************************************)
(* String helpers: str.contains(pattern, case=False) and the code shape.   *)
(***************************************************************************)
LowerCase == <<"a", "b", "c", "d", "e", "f", "g", "h", "i", "j", "k", "l", "m",
               "n", "o", "p", "q", "r", "s", "t", "u", "v", "w", "x", "y", "z">>

UpperCase == <<"A", "B", "C", "D", "E", "F", "G", "H", "I", "J", "K", "L", "M",
               "N", "O", "P", "Q", "R", "S", "T", "U", "V", "W", "X", "Y", "Z">>

Digits == {"0", "1", "2", "3", "4", "5", "6", "7", "8", "9"}

to_upper(c) ==
    IF \E i \in DOMAIN LowerCase : LowerCase[i] = c
    THEN UpperCase[CHOOSE i \in DOMAIN LowerCase : LowerCase[i] = c]
    ELSE c

str_contains(s, pat) ==
    \E i \in 1..(Len(s) - Len(pat) + 1) :
        \A k \in 1..Len(pat) : to_upper(s[i + k - 1]) = to_upper(pat[k])

contains_any(s, patterns) == \E pat \in patterns : str_contains(s, pat)

is_alnum(code) ==
    /\ Len(code) > 0
    /\ \A i \in DOMAIN code : code[i] \in Digits \cup Range(LowerCase) \cup Range(UpperCase)

RowsWhere(journal, P(_)) == {i \in DOMAIN journal.rows : P(journal.rows[i])}

CountOf(journal, col, v) == Cardinality({i \in DOMAIN journal.rows : journal.rows[i][col] = v})

(***************************************************************************)
(* A01 and B01..B09.                                                       *)
(***************************************************************************)
\* the rows of the model hold no empty cell and no text amount, so of the
\* four checks only the duplicate count can find something
scenario_a01_data_integrity(journal) ==
    LET dup == {i \in DOMAIN journal.rows :
                   \E k \in 1..(i - 1) : journal.rows[k] = journal.rows[i]}
    IN Ret("list", IF dup = {} THEN {} ELSE {[issue |-> "duplicates", count |-> Cardinality(dup)]},
           None)

DefaultMateriality == 1000000

DefaultFrequency == 5

DefaultFiscalYearEnd == 20231231

scenario_b01_large_items_test(journal, materiality_threshold) ==
    IF "account_code" \notin journal.columns THEN Raised
    ELSE LET pl == RowsWhere(journal, LAMBDA r :
                       startswith(r.account_code, <<"4">>) \/ startswith(r.account_code, <<"5">>))
         IN IF Cardinality(pl) = 0 THEN Ret("tuple", {}, "no profit and loss account")
            ELSE IF ~({"account_name", "debit_amount", "credit_amount"} \subseteq journal.columns)
            THEN Raised
            ELSE LET groups == {<<journal.rows[i].account_code, journal.rows[i].account_name>> : i \in pl}
                     total(g, col) == SumIdx(journal.rows,
                         {i \in pl : journal.rows[i].account_code = g[1]
                                     /\ journal.rows[i].account_name = g[2]}, col)
                     pl_summary == {[account_code |-> g[1], account_name |-> g[2],
                                     debit_amount |-> total(g, "debit_amount"),
                                     credit_amount |-> total(g, "credit_amount"),
                                     net_amount |-> total(g, "debit_amount") - total(g, "credit_amount")]
                                       : g \in groups}
                 IN Ret("tuple", {x \in pl_summary : Abs(x.net_amount) >= materiality_threshold}, None)

scenario_b02_unmatched_accounts(journal, coa_given) ==
    IF coa_given THEN Ret("DataFrame", {}, None)
    ELSE IF "account_code" \notin journal.columns THEN Raised
    ELSE Ret("DataFrame",
             RowsWhere(journal, LAMBDA r :
                 Len(r.account_code) < 3 \/ Len(r.account_code) > 10 \/ ~is_alnum(r.account_code)),
             None)

scenario_b03_new_accounts(journal, prev) ==
    IF ~prev.present THEN Ret("tuple", {}, "no prior trial balance")
    ELSE IF "account_code" \notin prev.columns \/ "account_code" \notin journal.columns
    THEN Raised
    ELSE LET prev_accounts == Keys(prev.rows, "account_code")
             current_accounts == Keys(journal.rows, "account_code")
             new_accounts == current_accounts \ prev_accounts
         IN Ret("tuple", RowsWhere(journal, LAMBDA r : r.account_code \in new_accounts), None)

scenario_b04_seldom_used_accounts(journal, frequency_threshold) ==
    IF "account_code" \notin journal.columns THEN Raised
    ELSE LET seldom_used == {a \in Keys(journal.rows, "account_code") :
                                CountOf(journal, "account_code", a) <= frequency_threshold}
         IN Ret("tuple", RowsWhere(journal, LAMBDA r : r.account_code \in seldom_used), None)

SystemPatterns == {<<"S", "Y", "S", "T", "E", "M">>, <<"A", "D", "M", "I", "N">>,
                   <<"T", "E", "S", "T">>, <<"A", "U", "T", "O">>}

\* authorized: [given |-> BOOLEAN, users |-> the set of authorized users]
scenario_b05_unusual_user(journal, authorized) ==
    IF "preparer" \notin journal.columns THEN Ret("tuple", {}, "no preparer column")
    ELSE LET users == Keys(journal.rows, "preparer")
             all_unusual ==
                 IF ~authorized.given
                 THEN {u \in users : CountOf(journal, "preparer", u) <= 2}
                      \cup {u \in users : contains_any(u, SystemPatterns)}
                 ELSE {u \in users : u \notin authorized.users}
         IN Ret("tuple", RowsWhere(journal, LAMBDA r : r.preparer \in all_unusual), None)

\* the Hangul patterns are spelled by code point, one character each
InappropriatePatterns ==
    {<<"C", "E", "O">>, <<"C", "F", "O">>, <<"U+AC10", "U+C0AC">>, <<"U+C678", "U+BD80">>,
     <<"G", "U", "E", "S", "T">>, <<"U+C784", "U+C6D0">>}

b06_inappropriate_users(journal, roles) ==
    IF ~roles.given
    THEN {u \in Keys(journal.rows, "preparer") : contains_any(u, InappropriatePatterns)}
    ELSE {u \in Keys(journal.rows, "preparer") :
             u \in DOMAIN roles.roles /\ roles.roles[u] # "input_authorized"}

\* roles: [given |-> BOOLEAN, roles |-> a function from users to role names]
scenario_b06_inappropriate_user(journal, roles) ==
    IF "preparer" \notin journal.columns THEN Ret("tuple", {}, "no preparer column")
    ELSE LET inappropriate_users == b06_inappropriate_users(journal, roles)
         IN Ret("tuple", RowsWhere(journal, LAMBDA r : r.preparer \in inappropriate_users), None)

\* dates are numbers yyyymmdd, which always parse
scenario_b07_back_dated_entries(journal, fiscal_year_end) ==
    IF "entry_date" \notin journal.columns THEN Ret("tuple", {}, "no entry_date column")
    ELSE IF "posting_date" \notin journal.columns THEN Ret("tuple", {}, "error handling dates")
    ELSE Ret("tuple",
             RowsWhere(journal, LAMBDA r :
                 r.posting_date <= fiscal_year_end /\ r.entry_date > fiscal_year_end),
             None)

scenario_b08_create_approve_same(journal) ==
    IF "preparer" \notin journal.columns \/ "approver" \notin journal.columns
    THEN Ret("tuple", {}, "no preparer or approver column")
    ELSE Ret("tuple", RowsWhere(journal, LAMBDA r : r.preparer = r.approver), None)

RECURSIVE SortedSeq(_)
SortedSeq(S) ==
    IF S = {} THEN <<>>
    ELSE LET m == CHOOSE x \in S : \A y \in S : x <= y
         IN <<m>> \o SortedSeq(S \ {m})

CashAccounts == {<<"1", "0", "1">>, <<"1", "0", "2">>, <<"1", "0", "3">>}

\* the rows of one voucher in journal order
GroupRows(journal, v) ==
    LET pick[n \in 0..Len(journal.rows)] ==
            IF n = 0 THEN <<>>
            ELSE IF journal.rows[n].voucher_id = v THEN Append(pick[n - 1], n) ELSE pick[n - 1]
    IN pick[Len(journal.rows)]

CountSeq(seq, P(_)) == Cardinality({k \in DOMAIN seq : P(seq[k])})

\* a variant that asks for three cash lines instead of two
b09_voucher_patterns_three_cash(journal, v) ==
    LET group == GroupRows(journal, v)
        code(i) == journal.rows[i].account_code
        cash == CountSeq(group, LAMBDA i : \E c \in CashAccounts : startswith(code(i), c))
        assets == CountSeq(group, LAMBDA i :
                      startswith(code(i), <<"1">>) \/ startswith(code(i), <<"2">>))
        liabilities == CountSeq(group, LAMBDA i : startswith(code(i), <<"3">>))
        revenue_expense == CountSeq(group, LAMBDA i :
                      startswith(code(i), <<"4">>) \/ startswith(code(i), <<"5">>))
    IN (IF cash >= 3 THEN <<"cash-to-cash">> ELSE <<>>)
       \o (IF assets > 0 /\ liabilities > 0 /\ Len(group) = 2 /\ revenue_expense = 0
           THEN <<"direct asset-liability offset">> ELSE <<>>)

\* a variant whose offset pattern does not ask for a two-line voucher
b09_voucher_patterns_any_size(journal, v) ==
    LET group == GroupRows(journal, v)
        code(i) == journal.rows[i].account_code
        cash == CountSeq(group, LAMBDA i : \E c \in CashAccounts : startswith(code(i), c))
        assets == CountSeq(group, LAMBDA i :
                      startswith(code(i), <<"1">>) \/ startswith(code(i), <<"2">>))
        liabilities == CountSeq(group, LAMBDA i : startswith(code(i), <<"3">>))
        revenue_expense == CountSeq(group, LAMBDA i :
                      startswith(code(i), <<"4">>) \/ startswith(code(i), <<"5">>))
    IN (IF cash >= 2 THEN <<"cash-to-cash">> ELSE <<>>)
       \o (IF assets > 0 /\ liabilities > 0 /\ revenue_expense = 0
           THEN <<"direct asset-liability offset">> ELSE <<>>)

\* the entries found for one voucher: the cash pattern first, then the offset
b09_voucher_patterns(journal, v) ==
    LET group == GroupRows(journal, v)
        code(i) == journal.rows[i].account_code
        cash == CountSeq(group, LAMBDA i : \E c \in CashAccounts : startswith(code(i), c))
        assets == CountSeq(group, LAMBDA i :
                      startswith(code(i), <<"1">>) \/ startswith(code(i), <<"2">>))
        liabilities == CountSeq(group, LAMBDA i : startswith(code(i), <<"3">>))
        revenue_expense == CountSeq(group, LAMBDA i :
                      startswith(code(i), <<"4">>) \/ startswith(code(i), <<"5">>))
    IN (IF cash >= 2 THEN <<"cash-to-cash">> ELSE <<>>)
       \o (IF assets > 0 /\ liabilities > 0 /\ Len(group) = 2 /\ revenue_expense = 0
           THEN <<"direct asset-liability offset">> ELSE <<>>)

\* unusual_combinations flattened: one entry per row of each tagged group
b09_result_rows(journal) ==
    LET vs == SortedSeq(Keys(journal.rows, "voucher_id"))
        tagged(v, tag) == [k \in DOMAIN GroupRows(journal, v) |->
                              [row |-> GroupRows(journal, v)[k], problem_type |-> tag]]
        of_voucher(v) ==
            LET pats == b09_voucher_patterns(journal, v)
            IN IF Len(pats) = 0 THEN <<>>
               ELSE IF Len(pats) = 1 THEN tagged(v, pats[1])
               ELSE tagged(v, pats[1]) \o tagged(v, pats[2])
        acc[n \in 0..Len(vs)] == IF n = 0 THEN <<>> ELSE acc[n - 1] \o of_voucher(vs[n])
    IN acc[Len(vs)]

scenario_b09_corresponding_accounts(journal) ==
    IF ~({"voucher_id", "account_code", "account_name"} \subseteq journal.columns) THEN Raised
    ELSE LET result == b09_result_rows(journal)
         IN Ret("tuple",
                {[pos |-> k, row |-> result[k].row, problem_type |-> result[k].problem_type]
                    : k \in DOMAIN result},
                None)

(***************************************************************************)
(* SpecA02: the balance test applied to every small journal.               *)
(***************************************************************************)
A02Vouchers == {1, 2}

A02Rows == {JRow(v, <<"1", "0", "1">>, d, c, Kim) :
               v \in A02Vouchers, d \in 0..MaxA02Amt, c \in 0..MaxA02Amt}

NoInjection == [account_code |-> <<>>, side |-> "none"]

Quiet ==
    /\ user_roles = [given |-> FALSE, roles |-> <<>>]
    /\ selected = {}
    /\ pc = "function"
    /\ validated = {}
    /\ injected = NoInjection

InitA02 ==
    /\ prev_tb = NoFile
    /\ curr_tb = NoFile
    /\ \E rows \in SeqsFromTo(A02Rows, 1, MaxA02Rows), cols \in {JournalColumns, JournalColumns \ {"voucher_id"}} :
          journal_df = DataFrame(cols, rows)
    /\ ret = [p \in Procedures |-> NotCalled]
    /\ Quiet

CallA02 ==
    /\ pc = "function"
    /\ ret["A02"] = NotCalled
    /\ ret' = [ret EXCEPT !["A02"] = scenario_a02_dr_cr_test(journal_df)]
    /\ UNCHANGED <<prev_tb, journal_df, curr_tb, user_roles, selected, pc, validated, injected>>

NextA02 == CallA02

SpecA02 == InitA02 /\ [][NextA02]_vars

A02Done == ret["A02"] # NotCalled

VoucherRows(v) == {i \in DOMAIN journal_df.rows : journal_df.rows[i].voucher_id = v}

DebitTotal(v) == SumIdx(journal_df.rows, VoucherRows(v), "debit_amount")

CreditTotal(v) == SumIdx(journal_df.rows, VoucherRows(v), "credit_amount")

\* C2: with a voucher-id column, voucher V is reported iff its debit total
\* differs from its credit total, each reported voucher carries
\* debit_total - credit_total, and the result is empty iff every voucher
\* balances exactly.
C2_BalanceTest ==
    (A02Done /\ "voucher_id" \in journal_df.columns) =>
        LET r == ret["A02"]
            reported == {x.voucher_id : x \in r.df}
        IN /\ r.kind \in {"list", "DataFrame"}
           /\ \A v \in A02Vouchers :
                  (v \in reported) <=>
                      (VoucherRows(v) # {} /\ DebitTotal(v) # CreditTotal(v))
           /\ \A x \in r.df : x.difference = DebitTotal(x.voucher_id) - CreditTotal(x.voucher_id)
           /\ Cardinality(r.df) = Cardinality(reported)
           /\ (r = Ret("list", {}, None)) <=>
                  (\A v \in A02Vouchers : DebitTotal(v) = CreditTotal(v))

\* a voucher with lines (debit 2 / credit 0) and another that balances
C2_Witness ==
    /\ A02Done
    /\ "voucher_id" \in journal_df.columns
    /\ \E x \in ret["A02"].df : x.voucher_id = 1 /\ x.difference = 2
    /\ \E i \in DOMAIN journal_df.rows : journal_df.rows[i].voucher_id = 2
    /\ 2 \notin {x.voucher_id : x \in ret["A02"].df}

(***************************************************************************)
(* SpecA03: the roll-forward applied to a one-row prior balance (possibly  *)
(* negative, possibly of an account the journal never touches), a journal  *)
(* on account 101 and a one-sided actual balance of account 101.           *)
(***************************************************************************)
Code101 == <<"1", "0", "1">>

Code301 == <<"3", "0", "1">>

A03PrevTables ==
    {DataFrame(TBColumns, <<TBRow(a, Num(d), Num(c))>>) :
        a \in {Code101, Code301}, d \in (-MaxBal)..MaxBal, c \in (-MaxBal)..MaxBal}

A03JournalRows == {JRow(1, Code101, d, c, Kim) : d \in 0..MaxJAmt, c \in 0..MaxJAmt}

A03CurrTables ==
    {DataFrame(TBColumns, <<TBRow(Code101, Num(d), Num(0))>>) : d \in 0..MaxBal}
    \cup {DataFrame(TBColumns, <<TBRow(Code101, Num(0), Num(c))>>) : c \in 0..MaxBal}

InitA03 ==
    /\ prev_tb \in A03PrevTables
    /\ \E rows \in SeqsFromTo(A03JournalRows, 1, MaxJRows) :
          journal_df = DataFrame(JournalColumns, rows)
    /\ curr_tb \in A03CurrTables
    /\ ret = [p \in Procedures |-> NotCalled]
    /\ Quiet

CallA03 ==
    /\ pc = "function"
    /\ ret["A03"] = NotCalled
    /\ ret' = [ret EXCEPT !["A03"] =
                  scenario_a03_rollforward_test(prev_tb, journal_df, curr_tb)]
    /\ UNCHANGED <<prev_tb, journal_df, curr_tb, user_roles, selected, pc, validated, injected>>

NextA03 == CallA03

SpecA03 == InitA03 /\ [][NextA03]_vars

A03Done == ret["A03"] # NotCalled

\* the rows of the intermediate result the call has built
Intermediate == expected_rows(prev_tb, journal_df)

\* C4: after the netting step every account of the intermediate result has
\* expected_debit >= 0 and expected_credit >= 0, negative prior balances
\* included.
C4_NettingNonNegative ==
    A03Done => \A e \in Intermediate : e.expected_debit >= 0 /\ e.expected_credit >= 0

\* both calculated sides negative, the credit side still negative after the
\* debit side was moved onto it
C4_Witness ==
    /\ A03Done
    /\ \E e \in Intermediate :
          /\ e.calc_debit < 0
          /\ e.calc_credit + Abs(e.calc_debit) < 0
          /\ e.expected_debit > 0
          /\ e.expected_credit = 0

\* C3: after the netting step at most one of expected_debit and
\* expected_credit is strictly positive, for every account.
C3_NettingExclusive ==
    A03Done => \A e \in Intermediate : ~(e.expected_debit > 0 /\ e.expected_credit > 0)

\* C13 as stated: the netting is not iterative, both tests and both moved
\* magnitudes are read from the calculated values, so the result equals
\* that of the non-iterative rule for every input, both values negative
\* included.
C13_NettingNotIterative ==
    A03Done =>
        \A e \in Intermediate :
            [expected_debit |-> e.expected_debit, expected_credit |-> e.expected_credit]
                = netting_non_iterative(e.calc_debit, e.calc_credit)

\* C13 amended: the netting is sequential.  The debit test and magnitude are
\* read from the calculated debit; the credit test and magnitude are read
\* from the credit as the debit adjustment left it.  The result is that of
\* the non-iterative rule whenever the calculated values are not both
\* negative, and has at most one non-zero side when they are.
C13_NettingSequential ==
    A03Done =>
        \A e \in Intermediate :
            LET credit_after_debit == IF e.calc_debit < 0
                                      THEN e.calc_credit + Abs(e.calc_debit)
                                      ELSE e.calc_credit
                debit_after_debit == IF e.calc_debit < 0 THEN 0 ELSE e.calc_debit
                result == [expected_debit |-> e.expected_debit,
                           expected_credit |-> e.expected_credit]
            IN /\ e.expected_debit = debit_after_debit
                       + (IF credit_after_debit < 0 THEN Abs(credit_after_debit) ELSE 0)
               /\ e.expected_credit = IF credit_after_debit < 0 THEN 0 ELSE credit_after_debit
               /\ ~(e.calc_debit < 0 /\ e.calc_credit < 0)
                      => result = netting_non_iterative(e.calc_debit, e.calc_credit)
               /\ (e.calc_debit < 0 /\ e.calc_credit < 0)
                      => (e.expected_debit = 0 \/ e.expected_credit = 0)

\* both calculated sides negative, the debit the larger in magnitude: the
\* credit mask finds a positive credit and moves nothing, where the
\* non-iterative rule would leave a balance on both sides
C13_Witness ==
    /\ A03Done
    /\ \E e \in Intermediate :
          /\ e.calc_debit < 0
          /\ e.calc_credit < 0
          /\ e.expected_debit = 0
          /\ e.expected_credit = Abs(e.calc_debit) - Abs(e.calc_credit)
          /\ e.expected_credit > 0
          /\ netting_non_iterative(e.calc_debit, e.calc_credit).expected_debit > 0

\* C14: the netting keeps the net position of every account: expected_debit
\* less expected_credit after the adjustment is the calculated debit less
\* the calculated credit.
C14_NetPositionPreserved ==
    A03Done =>
        \A e \in Intermediate :
            e.expected_debit - e.expected_credit = e.calc_debit - e.calc_credit

\* a negative calculated credit was moved onto a positive debit
C14_Witness ==
    /\ A03Done
    /\ \E e \in Intermediate :
          /\ e.calc_debit > 0
          /\ e.calc_credit < 0
          /\ e.expected_debit = e.calc_debit + Abs(e.calc_credit)
          /\ e.expected_credit = 0

\* the position of an account as the books carry it: prior debit less prior
\* credit plus the period's debits less its credits
NetPosition(m) == m.debit_balance - m.credit_balance + m.debit_amount - m.credit_amount

ActualOf(a) ==
    LET idx == {i \in DOMAIN curr_tb.rows : curr_tb.rows[i].account_code = a}
    IN IF idx = {} THEN [dr |-> 0, cr |-> 0]
       ELSE LET i == CHOOSE k \in idx : TRUE
            IN [dr |-> to_numeric_fillna0(curr_tb.rows[i].debit_balance),
                cr |-> to_numeric_fillna0(curr_tb.rows[i].credit_balance)]

ActualMatchesRollForward ==
    /\ \A m \in merged_rows(prev_tb, journal_df) :
          /\ m.credit_balance = 0 /\ m.debit_balance >= 0
          /\ ActualOf(m.account_code).dr = (IF NetPosition(m) > 0 THEN NetPosition(m) ELSE 0)
          /\ ActualOf(m.account_code).cr = (IF NetPosition(m) < 0 THEN -NetPosition(m) ELSE 0)
    /\ \A i \in DOMAIN curr_tb.rows :
          curr_tb.rows[i].account_code \in
              {m.account_code : m \in merged_rows(prev_tb, journal_df)}

\* C1: when the actual balance of every account is its prior balance plus
\* its journal activity, shown on one side, the roll-forward reports no
\* exception.
C1_Completeness ==
    (A03Done /\ ActualMatchesRollForward) => ret["A03"] = Ret("tuple", {}, None)

(***************************************************************************)
(* SpecCoerce: the roll-forward on tables that may be missing, may lack a  *)
(* balance column, or may hold a balance cell that is not a number.        *)
(***************************************************************************)
CoerceCells == {Num(v) : v \in 0..MaxCoerceBal} \cup {BadCell}

CoerceTables ==
    {NoFile} \cup
    {DataFrame(cols, <<TBRow(Code101, d, c)>>) :
        cols \in {TBColumns, TBColumns \ {"debit_balance"}},
        d \in CoerceCells, c \in CoerceCells}

CoerceJournals ==
    {NoFile} \cup
    {DataFrame(JournalColumns, <<JRow(1, Code101, d, c, Kim)>>) :
        d \in 0..MaxJAmt, c \in 0..MaxJAmt}

InitCoerce ==
    /\ prev_tb \in CoerceTables
    /\ journal_df \in CoerceJournals
    /\ curr_tb \in CoerceTables
    /\ ret = [p \in Procedures |-> NotCalled]
    /\ Quiet

SpecCoerce == InitCoerce /\ [][NextA03]_vars

HasBadCell(tb) ==
    \E i \in DOMAIN tb.rows : ~tb.rows[i].debit_balance.ok \/ ~tb.rows[i].credit_balance.ok

ZeroCell(cell) == IF cell.ok THEN cell ELSE Num(0)

Zeroed(tb) ==
    [tb EXCEPT !.rows = [i \in DOMAIN tb.rows |->
        [tb.rows[i] EXCEPT !.debit_balance = ZeroCell(@), !.credit_balance = ZeroCell(@)]]]

AllUploaded == prev_tb.present /\ journal_df.present /\ curr_tb.present

InjAccounts == {Code101, Code301}

\* the trial balances over the two accounts, one row per account
TablesOver(cells) ==
    {DataFrame(TBColumns, <<TBRow(Code101, Num(d), Num(c))>>) : d \in cells, c \in cells}
    \cup {DataFrame(TBColumns, <<TBRow(Code301, Num(d), Num(c))>>) : d \in cells, c \in cells}
    \cup {DataFrame(TBColumns, <<TBRow(Code101, Num(d), Num(c)), TBRow(Code301, Num(e), Num(f))>>) :
             d \in cells, c \in cells, e \in cells, f \in cells}

InjJournals ==
    {DataFrame(JournalColumns, <<JRow(1, a, x[1], x[2], Kim)>>) :
        a \in InjAccounts, x \in {<<1, 0>>, <<0, 1>>}}

NoDifference(prev, journal, curr) ==
    \A c \in comparison_rows(prev, journal, curr) :
        c.debit_difference = 0 /\ c.credit_difference = 0

InitInject ==
    /\ prev_tb \in TablesOver(0..MaxInjPrior)
    /\ journal_df \in InjJournals
    /\ curr_tb \in TablesOver(0..MaxInjBal)
    /\ NoDifference(prev_tb, journal_df, curr_tb)
    /\ ret = [p \in Procedures |-> NotCalled]
    /\ Quiet

\* the actual table with the cell `side` of account a set to v, a row added
\* when the account has none
WithActual(curr, a, side, v) ==
    IF a \in Keys(curr.rows, "account_code")
    THEN [curr EXCEPT !.rows = [i \in DOMAIN curr.rows |->
             IF curr.rows[i].account_code = a
             THEN [curr.rows[i] EXCEPT ![side] = Num(v)] ELSE curr.rows[i]]]
    ELSE [curr EXCEPT !.rows = Append(curr.rows,
             IF side = "debit_balance" THEN TBRow(a, Num(v), Num(0))
             ELSE TBRow(a, Num(0), Num(v)))]

InjectDiscrepancy ==
    /\ pc = "function"
    /\ A03Done
    /\ injected = NoInjection
    /\ \E a \in InjAccounts, side \in {"debit_balance", "credit_balance"}, v \in 0..MaxInjBal :
          LET old == IF side = "debit_balance" THEN ActualOf(a).dr ELSE ActualOf(a).cr
          IN /\ Abs(v - old) > Tolerance
             /\ curr_tb' = WithActual(curr_tb, a, side, v)
             /\ injected' = [account_code |-> a, side |-> side]
             /\ ret' = [ret EXCEPT !["A03"] =
                           scenario_a03_rollforward_test(prev_tb, journal_df, curr_tb')]
    /\ UNCHANGED <<prev_tb, journal_df, user_roles, selected, pc, validated>>

NextInject == CallA03 \/ InjectDiscrepancy

SpecInject == InitInject /\ [][NextInject]_vars

UnionCodes ==
    Keys(prev_tb.rows, "account_code") \cup Keys(journal_df.rows, "account_code")
        \cup Keys(curr_tb.rows, "account_code")

ExpectedOf(a) ==
    LET ex == {e \in Intermediate : e.account_code = a}
    IN IF ex = {} THEN [dr |-> 0, cr |-> 0]
       ELSE LET e == CHOOSE x \in ex : TRUE
            IN [dr |-> e.expected_debit, cr |-> e.expected_credit]

Reported == {r.account_code : r \in ret["A03"].df}

CeoPark == <<"C", "E", "O", "_", "p", "a", "r", "k">>

B06Users == {Kim, Lee, CeoPark}

B06RoleMaps ==
    UNION {[D -> {"input_authorized", "viewer"}] : D \in SUBSET {Kim, Lee}}

InitB06 ==
    /\ prev_tb = NoFile
    /\ curr_tb = NoFile
    /\ \E rows \in SeqsFromTo({JRow(1, Code101, 1, 1, u) : u \in B06Users}, 1, MaxB06Rows),
          cols \in {JournalColumns, JournalColumns \cup OptionalColumns} :
          journal_df = DataFrame(cols, rows)
    /\ user_roles \in {[given |-> FALSE, roles |-> <<>>]}
                      \cup {[given |-> TRUE, roles |-> m] : m \in B06RoleMaps}
    /\ ret = [p \in Procedures |-> NotCalled]
    /\ selected = {}
    /\ pc = "function"
    /\ validated = {}
    /\ injected = NoInjection

CallB06 ==
    /\ pc = "function"
    /\ ret["B06"] = NotCalled
    /\ ret' = [ret EXCEPT !["B06"] = scenario_b06_inappropriate_user(journal_df, user_roles)]
    /\ UNCHANGED <<prev_tb, journal_df, curr_tb, user_roles, selected, pc, validated, injected>>

NextB06 == CallB06

SpecB06 == InitB06 /\ [][NextB06]_vars

\* C10: with a role map supplied, every row whose preparer is not in the
\* map, or is mapped to a role other than input_authorized, is returned; a
\* preparer absent from the map is never treated as authorized.
C10_UnlistedPreparerReported ==
    (ret["B06"] # NotCalled /\ user_roles.given /\ "preparer" \in journal_df.columns) =>
        \A i \in DOMAIN journal_df.rows :
            (\/ journal_df.rows[i].preparer \notin DOMAIN user_roles.roles
             \/ user_roles.roles[journal_df.rows[i].preparer] # "input_authorized")
                => i \in ret["B06"].df

(***************************************************************************)
(* SpecRun: one run of the main script over the uploaded files with the    *)
(* ticked procedures.                                                      *)
(***************************************************************************)
BlockOrder == <<"A01", "A02", "A03", "B01", "B02", "B03", "B04", "B05", "B06",
                "B07", "B08", "B09">>

NextBlock(p) ==
    LET k == CHOOSE i \in DOMAIN BlockOrder : BlockOrder[i] = p
    IN IF k = Len(BlockOrder) THEN "done" ELSE BlockOrder[k + 1]

Code401 == <<"4", "0", "1">>

RunJournalRows ==
    <<JRow(1, Code101, 2, 0, Kim),
      JRow(1, Code401, 0, 2, Kim),
      [JRow(2, Code301, 1, 0, CeoPark) EXCEPT !.entry_date = DefaultFiscalYearEnd + 1]>>

RunJournals ==
    {NoFile, DataFrame(JournalColumns \ {"voucher_id"}, RunJournalRows)}
    \cup {DataFrame(JournalColumns \cup opt, RunJournalRows) :
             opt \in {{}, {"preparer"}, OptionalColumns}}

RunPrevTables ==
    {NoFile} \cup
    {DataFrame(cols, <<TBRow(Code101, Num(2), Num(0))>>) :
        cols \in {TBColumns, TBColumns \ {"account_code"}, TBColumns \ {"account_name"}}}

RunCurrTables ==
    {NoFile} \cup
    {DataFrame(cols, <<TBRow(Code101, Num(4), Num(0))>>) :
        cols \in {TBColumns, TBColumns \ {"debit_balance"}}}

InitRun ==
    /\ prev_tb \in RunPrevTables
    /\ journal_df \in RunJournals
    /\ curr_tb \in RunCurrTables
    /\ selected \in {S \in SUBSET Procedures : Cardinality(S) <= MaxSelected}
    /\ user_roles = [given |-> FALSE, roles |-> <<>>]
    /\ pc = "start"
    /\ ret = [p \in Procedures |-> NotCalled]
    /\ validated = {}
    /\ injected = NoInjection

\* if journal_df is not None and validate_journal_entries(journal_df):
StartRun ==
    /\ pc = "start"
    /\ IF journal_df.present /\ validate_journal_entries(journal_df)
       THEN pc' = "A01" /\ validated' = {<<"journal", TRUE>>}
       ELSE /\ pc' = "done"
            /\ validated' = IF journal_df.present THEN {<<"journal", FALSE>>} ELSE {}
    /\ UNCHANGED <<prev_tb, journal_df, curr_tb, user_roles, selected, ret, injected>>

\* a block whose checkbox is not ticked
SkipBlock ==
    /\ pc \in Procedures
    /\ pc \notin selected
    /\ pc' = NextBlock(pc)
    /\ UNCHANGED <<prev_tb, journal_df, curr_tb, user_roles, selected, ret, validated, injected>>

\* the call each block but A03 makes, with the arguments the script passes
BlockCall(p) ==
    CASE p = "A01" -> scenario_a01_data_integrity(journal_df)
      [] p = "A02" -> scenario_a02_dr_cr_test(journal_df)
      [] p = "B01" -> scenario_b01_large_items_test(journal_df, DefaultMateriality)
      [] p = "B02" -> scenario_b02_unmatched_accounts(journal_df, FALSE)
      [] p = "B03" -> scenario_b03_new_accounts(journal_df, prev_tb)
      [] p = "B04" -> scenario_b04_seldom_used_accounts(journal_df, DefaultFrequency)
      [] p = "B05" -> scenario_b05_unusual_user(journal_df, [given |-> FALSE, users |-> {}])
      [] p = "B06" -> scenario_b06_inappropriate_user(journal_df, [given |-> FALSE, roles |-> <<>>])
      [] p = "B07" -> scenario_b07_back_dated_entries(journal_df, DefaultFiscalYearEnd)
      [] p = "B08" -> scenario_b08_create_approve_same(journal_df)
      [] p = "B09" -> scenario_b09_corresponding_accounts(journal_df)

\* an exception that leaves a call is caught nowhere: the script run ends
RunBlock ==
    /\ pc \in Procedures \ {"A03"}
    /\ pc \in selected
    /\ ret' = [ret EXCEPT ![pc] = BlockCall(pc)]
    /\ pc' = IF BlockCall(pc).kind = "raise" THEN "aborted" ELSE NextBlock(pc)
    /\ UNCHANGED <<prev_tb, journal_df, curr_tb, user_roles, selected, validated, injected>>

\* the A03 block: both files, then both validations (the second only when
\* the first passed), then the call
RunA03 ==
    /\ pc = "A03"
    /\ pc \in selected
    /\ IF prev_tb.present /\ curr_tb.present
       THEN IF validate_trial_balance(prev_tb) /\ validate_trial_balance(curr_tb)
            THEN /\ validated' = validated \cup {<<"prev", TRUE>>, <<"curr", TRUE>>}
                 /\ ret' = [ret EXCEPT !["A03"] =
                               scenario_a03_rollforward_test(prev_tb, journal_df, curr_tb)]
            ELSE /\ validated' = validated \cup
                        (IF validate_trial_balance(prev_tb)
                         THEN {<<"prev", TRUE>>, <<"curr", FALSE>>}
                         ELSE {<<"prev", FALSE>>})
                 /\ ret' = [ret EXCEPT !["A03"] = Ret("no_call", {}, "trial balance format")]
       ELSE /\ validated' = validated
            /\ ret' = [ret EXCEPT !["A03"] = Ret("no_call", {}, "upload both trial balances")]
    /\ pc' = NextBlock("A03")
    /\ UNCHANGED <<prev_tb, journal_df, curr_tb, user_roles, selected, injected>>

NextRun == StartRun \/ SkipBlock \/ RunBlock \/ RunA03

SpecRun == InitRun /\ [][NextRun]_vars

Invoked(p) == ret[p].kind \notin {"not_called", "no_call"}

RunOver == pc \in {"done", "aborted"}

\* a call that failed: an exception left it, or it handed back an error
Failed(r) == r.kind = "raise" \/ (r.kind = "tuple_none" /\ r.msg # None)

\* C7: when one ticked procedure fails, every other ticked procedure is
\* still executed and yields its own outcome.
C7_FailureIsolation ==
    (RunOver /\ <<"journal", TRUE>> \in validated) =>
        \A f \in selected :
            Failed(ret[f]) => \A p \in selected \ {f} : ret[p] # NotCalled

\* C8: a procedure that reads a table is invoked only when that table
\* passed its validation in the same run.
C8_ValidatedBeforeUse ==
    \A p \in Procedures :
        Invoked(p) =>
            /\ <<"journal", TRUE>> \in validated
            /\ (p = "A03") => {<<"prev", TRUE>>, <<"curr", TRUE>>} \subseteq validated
            /\ (p = "B03" /\ prev_tb.present) => <<"prev", TRUE>> \in validated

\* what each procedure needs beyond the journal itself
PreconditionUnmet(p) ==
    CASE p = "A02" -> "voucher_id" \notin journal_df.columns
      [] p = "B03" -> \/ ~prev_tb.present
                      \/ "account_code" \notin prev_tb.columns
                      \/ "account_code" \notin journal_df.columns
      [] p \in {"B05", "B06"} -> "preparer" \notin journal_df.columns
      [] p = "B07" -> "entry_date" \notin journal_df.columns
      [] p = "B08" -> ~({"preparer", "approver"} \subseteq journal_df.columns)
      [] p \in {"B01", "B02", "B04"} -> "account_code" \notin journal_df.columns
      [] p = "B09" -> ~({"voucher_id", "account_code"} \subseteq journal_df.columns)
      [] OTHER -> FALSE

CannotEvaluate(r) == r.kind \in {"list", "tuple", "tuple_none"} /\ r.msg # None /\ r.df = {}

\* C6: a procedure whose required column or companion table is absent
\* returns a cannot-evaluate outcome with a reason, never the empty result
\* of a check that ran clean.
C6_CannotEvaluateReturned ==
    \A p \in Procedures :
        (Invoked(p) /\ PreconditionUnmet(p)) => CannotEvaluate(ret[p])

(***************************************************************************)
(* SpecB09: the account-combination check applied to every small journal.  *)
(***************************************************************************)
Code1025 == <<"1", "0", "2", "5">>

Code110 == <<"1", "1", "0">>

B09Vouchers == {1, 2}

B09Codes == {Code101, Code1025, Code110, Code301, Code401}

B09Rows == {JRow(v, c, 1, 0, Kim) : v \in B09Vouchers, c \in B09Codes}

InitB09 ==
    /\ prev_tb = NoFile
    /\ curr_tb = NoFile
    /\ \E rows \in SeqsFromTo(B09Rows, 1, MaxB09Rows) :
          journal_df = DataFrame(JournalColumns \cup OptionalColumns, rows)
    /\ ret = [p \in Procedures |-> NotCalled]
    /\ Quiet

CallB09 ==
    /\ pc = "function"
    /\ ret["B09"] = NotCalled
    /\ ret' = [ret EXCEPT !["B09"] = scenario_b09_corresponding_accounts(journal_df)]
    /\ UNCHANGED <<prev_tb, journal_df, curr_tb, user_roles, selected, pc, validated, injected>>

NextB09 == CallB09

SpecB09 == InitB09 /\ [][NextB09]_vars

B09Done == ret["B09"] # NotCalled

\* the journal rows of one voucher
B09Lines(v) == {i \in DOMAIN journal_df.rows : journal_df.rows[i].voucher_id = v}

\* the rows of a voucher whose account code begins with 101, 102 or 103
CashLines(v) ==
    {i \in B09Lines(v) :
        LET code == journal_df.rows[i].account_code
        IN Len(code) >= 3 /\ <<code[1], code[2], code[3]>> \in CashAccounts}

VoucherOf(x) == journal_df.rows[x.row].voucher_id

CashTagged(v) ==
    \E x \in ret["B09"].df : VoucherOf(x) = v /\ x.problem_type = "cash-to-cash"

FirstChar(i) == journal_df.rows[i].account_code[1]

\* the voucher is exactly two lines, an asset against a liability
OffsetVoucher(v) ==
    /\ Cardinality(B09Lines(v)) = 2
    /\ \E i \in B09Lines(v) : FirstChar(i) \in {"1", "2"}
    /\ \E i \in B09Lines(v) : FirstChar(i) = "3"

FlaggedVouchers == {v \in B09Vouchers : Cardinality(CashLines(v)) >= 2 \/ OffsetVoucher(v)}

\* C15: no voucher is tagged with both patterns, so a journal row appears
\* at most once in the result; the result holds exactly the rows of the
\* flagged vouchers, numbered anew, in voucher order and within a voucher
\* in journal order.
C15_ExclusiveAndOrdered ==
    B09Done =>
        LET df == ret["B09"].df
        IN /\ \A x, y \in df : VoucherOf(x) = VoucherOf(y) => x.problem_type = y.problem_type
           /\ \A x, y \in df : x.row = y.row => x = y
           /\ {x.row : x \in df} = UNION {B09Lines(v) : v \in FlaggedVouchers}
           /\ {x.pos : x \in df} = 1..Cardinality(df)
           /\ \A x, y \in df :
                 x.pos < y.pos =>
                     \/ VoucherOf(x) < VoucherOf(y)
                     \/ VoucherOf(x) = VoucherOf(y) /\ x.row < y.row

\* voucher 2 comes first in the journal and is a cash pair, voucher 1 is an
\* offset pair interleaved with it: the result starts with voucher 1
C15_Witness ==
    /\ B09Done
    /\ Len(journal_df.rows) = 4
    /\ journal_df.rows[1].voucher_id = 2
    /\ journal_df.rows[2].voucher_id = 1
    /\ Cardinality(CashLines(2)) = 2
    /\ OffsetVoucher(1)
    /\ Cardinality(ret["B09"].df) = 4
    /\ [pos |-> 1, row |-> 2, problem_type |-> "direct asset-liability offset"] \in ret["B09"].df
    /\ [pos |-> 3, row |-> 1, problem_type |-> "cash-to-cash"] \in ret["B09"].df

(***************************************************************************)
(* SpecB01: the materiality analysis applied to every small journal, with  *)
(* the default threshold and amounts that are multiples of half of it.     *)
(***************************************************************************)
Code501 == <<"5", "0", "1">>

B01Codes == {Code101, Code401, Code501}

B01Names == {"Sales", "sales"}

B01Unit == DefaultMateriality \div 2

\* a journal line carries its amount on one side
B01Sides == {<<k * B01Unit, 0>> : k \in 0..MaxB01Amt} \cup {<<0, k * B01Unit>> : k \in 1..MaxB01Amt}

B01Rows == {[JRow(1, a, s[1], s[2], Kim) EXCEPT !.account_name = n] :
               a \in B01Codes, n \in B01Names, s \in B01Sides}

InitB01 ==
    /\ prev_tb = NoFile
    /\ curr_tb = NoFile
    /\ \E rows \in SeqsFromTo(B01Rows, 1, MaxB01Rows) :
          journal_df = DataFrame(JournalColumns \cup OptionalColumns, rows)
    /\ ret = [p \in Procedures |-> NotCalled]
    /\ Quiet

CallB01 ==
    /\ pc = "function"
    /\ ret["B01"] = NotCalled
    /\ ret' = [ret EXCEPT !["B01"] = scenario_b01_large_items_test(journal_df, DefaultMateriality)]
    /\ UNCHANGED <<prev_tb, journal_df, curr_tb, user_roles, selected, pc, validated, injected>>

NextB01 == CallB01

SpecB01 == InitB01 /\ [][NextB01]_vars

B01Done == ret["B01"] # NotCalled

\* debits less credits over every journal row that carries the account code
NetOfCode(a) ==
    groupby_sum(journal_df.rows, "account_code", a, "debit_amount")
    - groupby_sum(journal_df.rows, "account_code", a, "credit_amount")

IsProfitAndLoss(a) == Len(a) >= 1 /\ a[1] \in {"4", "5"}

\* C12: an account code is reported exactly when it begins with 4 or 5 and
\* the absolute value of its debits less its credits, summed over all the
\* journal rows with that code, reaches the threshold; no code is reported
\* twice.
C12_PerAccountCode ==
    B01Done =>
        /\ \A a \in Keys(journal_df.rows, "account_code") :
              (\E x \in ret["B01"].df : x.account_code = a)
                  <=> (IsProfitAndLoss(a) /\ Abs(NetOfCode(a)) >= DefaultMateriality)
        /\ \A x, y \in ret["B01"].df : x.account_code = y.account_code => x = y

====
